---- MODULE Spec2Model ----
(***************************************************************************)
(* Model of trl/dataset_processor.py: the DatasetProcessor base class and  *)
(* its two variants (PreferenceDatasetProcessor, SFTDatasetProcessor).     *)
(*                                                                         *)
(* A caller constructs a processor from a tokenizer and a configuration    *)
(* and then runs  tokenize -> filter -> get_token_length_stats  over a     *)
(* dataset.  Every call either returns or raises; a raised exception ends  *)
(* the run.  The tokenizer and the dataset are external collaborators: the *)
(* dataset is an ordered sequence of rows (mappings from field name to     *)
(* value) and the chat template is a fixed deterministic rendering.        *)
(***************************************************************************)
EXTENDS Integers, Sequences, FiniteSets

VARIABLES
    pc,        \* position of the caller: "new", "constructed", "tokenized",
               \* "filtered", "refiltered", "done", "failed"
    args,      \* the constructor's arguments: [cls, tokenizer, config]
    self,      \* the processor's fields: [tokenizer, config]
    log,       \* the warnings emitted through logging.warn, in order
    dataset,   \* the dataset the caller currently holds
    prev,      \* the dataset passed to the last call
    ret        \* the last call: [op, outcome, exc, features, stats]

vars == <<pc, args, self, log, dataset, prev, ret>>

----------------------------------------------------------------------------
(* Bounds of the model *)

MaxRows == 2     \* records in a dataset
MaxTurns == 2    \* turns in a conversation
MaxBound == 3    \* largest value of a configured length bound

----------------------------------------------------------------------------
(* Optional[...] values: None is the empty sequence, a present value v is <<v>> *)

None == <<>>
Some(v) == <<v>>
Get(o) == o[1]

Range(s) == {s[i] : i \in 1..Len(s)}

\* all sequences over S of length at most n
RECURSIVE SeqsUpTo(_, _)
SeqsUpTo(S, n) ==
    IF n = 0 THEN {<<>>}
    ELSE LET shorter == SeqsUpTo(S, n - 1)
         IN  shorter \cup {Append(s, x) : s \in {t \in shorter : Len(t) = n - 1}, x \in S}

----------------------------------------------------------------------------
(* DatasetConfig *)

DatasetConfig(mtl, mptl) ==
    [max_token_length |-> mtl, max_prompt_token_lenth |-> mptl,
     batched |-> FALSE, load_from_cache_file |-> FALSE, num_proc |-> Some(1), ncols |-> 2]

BoundValues == {None} \cup {Some(n) : n \in 0..MaxBound}

Configs == {DatasetConfig(mtl, mptl) : mtl \in BoundValues, mptl \in BoundValues}

\* the config argument: a DatasetConfig, or None
ConfigArgs == {None} \cup {Some(c) : c \in Configs}

----------------------------------------------------------------------------
(* The tokenizer (external): pad/eos ids and the chat template *)

TokenIds == {None, Some(0), Some(1)}

Tokenizers == [pad_token_id : TokenIds, eos_token_id : TokenIds]

\* one turn of a conversation renders to a role header token and a content token
EncodeTurn(turn) ==
    <<(IF turn.role = "user" THEN 1 ELSE 2), 10 + turn.content>>

RECURSIVE apply_chat_template(_)
apply_chat_template(turns) ==
    IF turns = <<>> THEN <<>>
    ELSE EncodeTurn(Head(turns)) \o apply_chat_template(Tail(turns))

\* s[:-1]
AllButLast(s) == SubSeq(s, 1, Len(s) - 1)

\* a conversation of n turns, user and assistant alternating; the
\* conversations of a raw dataset have at least one turn
Conversation(n) ==
    [i \in 1..n |-> [role |-> IF i % 2 = 1 THEN "user" ELSE "assistant", content |-> i]]

Conversations == {Conversation(n) : n \in 1..MaxTurns}

----------------------------------------------------------------------------
(* Datasets: sequences of rows; a row maps field names to values *)

PreferenceRows == [chosen : Conversations, rejected : Conversations]
SFTRows == [messages : Conversations]

Classes == {"DatasetProcessor", "PreferenceDatasetProcessor", "SFTDatasetProcessor"}

RawDatasets(cls) ==
    IF cls = "PreferenceDatasetProcessor" THEN SeqsUpTo(PreferenceRows, MaxRows)
    ELSE SeqsUpTo(SFTRows, MaxRows)

\* row[key] = value, on a copy
SetItem(row, key, value) ==
    [k \in DOMAIN row \cup {key} |-> IF k = key THEN value ELSE row[k]]

----------------------------------------------------------------------------
(* Outcomes of a call: a returned value or a raised exception, with the    *)
(* warnings the call logged                                                *)

NoStats == [k \in {} |-> 0]

Return(v) == [outcome |-> "return", exc |-> "", value |-> v, warnings |-> <<>>]
Raise(e) == [outcome |-> "raise", exc |-> e, value |-> <<>>, warnings |-> <<>>]
Warn(msg, r) == [r EXCEPT !.warnings = <<msg>> \o @]

----------------------------------------------------------------------------
(* DatasetProcessor.__init__ *)

PadIsEosWarning == "Tokenizer's pad token is the same as EOS token"
NoConfigWarning == "No config provided, skipping filtering"

\* a faulty variant: the comparison is inverted
DatasetProcessor__init__warn_if_differ(tokenizer, config) ==
    LET obj == [tokenizer |-> tokenizer, config |-> config]
    IN  IF tokenizer.pad_token_id # tokenizer.eos_token_id
        THEN Warn(PadIsEosWarning, Return(obj))
        ELSE Return(obj)

DatasetProcessor__init__(tokenizer, config) ==
    LET obj == [tokenizer |-> tokenizer, config |-> config]
    IN  IF tokenizer.pad_token_id = tokenizer.eos_token_id
        THEN Warn(PadIsEosWarning, Return(obj))
        ELSE Return(obj)

----------------------------------------------------------------------------
(* tokenize *)

DatasetProcessor_tokenize(obj, ds) == Raise("NotImplementedError")

\* a faulty variant: prompt rendered from the whole conversation
Preference_tokenize_fn_full_prompt(row) ==
    LET r1 == SetItem(row, "prompt", apply_chat_template(row["chosen"]))
        r2 == SetItem(r1, "chosen", apply_chat_template(r1["chosen"]))
        r3 == SetItem(r2, "rejected", apply_chat_template(r2["rejected"]))
    IN  r3

\* the three assignments of tokenize_fn, in order, each on the row as the
\* previous one left it
Preference_tokenize_fn(row) ==
    LET r1 == SetItem(row, "prompt", apply_chat_template(AllButLast(row["chosen"])))
        r2 == SetItem(r1, "chosen", apply_chat_template(r1["chosen"]))
        r3 == SetItem(r2, "rejected", apply_chat_template(r2["rejected"]))
    IN  r3

SFT_tokenize_fn(row) ==
    LET r1 == SetItem(row, "prompt", apply_chat_template(AllButLast(row["messages"])))
        r2 == SetItem(r1, "messages", apply_chat_template(r1["messages"]))
    IN  r2

\* self.config.num_proc is read to build the arguments of dataset.map;
\* dataset.map(fn) gives one output row per input row, in order
PreferenceDatasetProcessor_tokenize(obj, ds) ==
    IF obj.config = None THEN Raise("AttributeError")
    ELSE Return([i \in 1..Len(ds) |-> Preference_tokenize_fn(ds[i])])

SFTDatasetProcessor_tokenize(obj, ds) ==
    IF obj.config = None THEN Raise("AttributeError")
    ELSE Return([i \in 1..Len(ds) |-> SFT_tokenize_fn(ds[i])])

tokenize(cls, obj, ds) ==
    CASE cls = "PreferenceDatasetProcessor" -> PreferenceDatasetProcessor_tokenize(obj, ds)
      [] cls = "SFTDatasetProcessor" -> SFTDatasetProcessor_tokenize(obj, ds)
      [] OTHER -> DatasetProcessor_tokenize(obj, ds)

----------------------------------------------------------------------------
(* filter *)

DatasetProcessor_filter(obj, ds) ==
    IF obj.config = None THEN Warn(NoConfigWarning, Return(ds))
    ELSE Raise("NotImplementedError")

\* faulty or alternative variants of the preference filter_fn: strict
\* conjunction of the bounds, < in place of <=, and a final else False
Preference_filter_fn_conjunction(row, config) ==
    /\ (config.max_prompt_token_lenth # None
            => Len(row["prompt"]) <= Get(config.max_prompt_token_lenth))
    /\ (config.max_token_length # None
            => Len(row["chosen"]) <= Get(config.max_token_length))
    /\ (config.max_token_length # None
            => Len(row["rejected"]) <= Get(config.max_token_length))

Preference_filter_fn_strict(row, config) ==
    IF config.max_prompt_token_lenth # None
    THEN Len(row["prompt"]) < Get(config.max_prompt_token_lenth)
    ELSE IF config.max_token_length # None
         THEN TRUE /\ Len(row["chosen"]) < Get(config.max_token_length)
         ELSE IF config.max_token_length # None
              THEN TRUE /\ Len(row["rejected"]) < Get(config.max_token_length)
              ELSE TRUE

Preference_filter_fn_else_false(row, config) ==
    IF config.max_prompt_token_lenth # None
    THEN Len(row["prompt"]) <= Get(config.max_prompt_token_lenth)
    ELSE IF config.max_token_length # None
         THEN TRUE /\ Len(row["chosen"]) <= Get(config.max_token_length)
         ELSE IF config.max_token_length # None
              THEN TRUE /\ Len(row["rejected"]) <= Get(config.max_token_length)
              ELSE FALSE

\* filter_fn as Python parses it: a conditional expression binds looser than
\* `and`, and chains to the right:
\*   A if P else ((True and B) if T else ((True and C) if T else True))
Preference_filter_fn(row, config) ==
    IF config.max_prompt_token_lenth # None
    THEN Len(row["prompt"]) <= Get(config.max_prompt_token_lenth)
    ELSE IF config.max_token_length # None
         THEN TRUE /\ Len(row["chosen"]) <= Get(config.max_token_length)
         ELSE IF config.max_token_length # None
              THEN TRUE /\ Len(row["rejected"]) <= Get(config.max_token_length)
              ELSE TRUE

\*   A if P else ((True and B) if T else True)
SFT_filter_fn(row, config) ==
    IF config.max_prompt_token_lenth # None
    THEN Len(row["prompt"]) <= Get(config.max_prompt_token_lenth)
    ELSE IF config.max_token_length # None
         THEN TRUE /\ Len(row["messages"]) <= Get(config.max_token_length)
         ELSE TRUE

\* self.config.num_proc is read to build the arguments of dataset.filter;
\* dataset.filter(fn) gives the rows fn keeps, in order
PreferenceDatasetProcessor_filter(obj, ds) ==
    IF obj.config = None THEN Raise("AttributeError")
    ELSE LET filter_fn(row) == Preference_filter_fn(row, Get(obj.config))
         IN  Return(SelectSeq(ds, filter_fn))

SFTDatasetProcessor_filter(obj, ds) ==
    IF obj.config = None THEN Raise("AttributeError")
    ELSE LET filter_fn(row) == SFT_filter_fn(row, Get(obj.config))
         IN  Return(SelectSeq(ds, filter_fn))

filter(cls, obj, ds) ==
    CASE cls = "PreferenceDatasetProcessor" -> PreferenceDatasetProcessor_filter(obj, ds)
      [] cls = "SFTDatasetProcessor" -> SFTDatasetProcessor_filter(obj, ds)
      [] OTHER -> DatasetProcessor_filter(obj, ds)

----------------------------------------------------------------------------
(* get_token_length_stats *)

RECURSIVE Sum(_)
Sum(xs) == IF xs = <<>> THEN 0 ELSE Head(xs) + Sum(Tail(xs))

RECURSIVE GCD(_, _)
GCD(a, b) == IF b = 0 THEN a ELSE GCD(b, a % b)

\* the builtins max, min and / ; a quotient is kept as a fraction in lowest terms
PyMax(xs) ==
    IF xs = <<>> THEN Raise("ValueError")
    ELSE Return(CHOOSE m \in Range(xs) : \A x \in Range(xs) : x <= m)

PyMin(xs) ==
    IF xs = <<>> THEN Raise("ValueError")
    ELSE Return(CHOOSE m \in Range(xs) : \A x \in Range(xs) : m <= x)

PyTrueDiv(a, b) ==
    IF b = 0 THEN Raise("ZeroDivisionError")
    ELSE Return(<<a \div GCD(a, b), b \div GCD(a, b)>>)

\* dataset[key]: the column of a field
Column(ds, key) == [i \in 1..Len(ds) |-> ds[i][key]]

\* len(x) for x in dataset[key]
TokenLengths(ds, key) == [i \in 1..Len(ds) |-> Len(Column(ds, key)[i])]

\* a faulty variant: the sum is divided by the number of columns
StatsEntry_mean_over_columns(ds, key) ==
    LET mx == PyMax(TokenLengths(ds, key))
    IN  IF mx.outcome = "raise" THEN mx
        ELSE Return([max_token_length |-> mx.value,
                     min_token_length |-> PyMin(TokenLengths(ds, key)).value,
                     mean_token_length |->
                         PyTrueDiv(Sum(TokenLengths(ds, key)),
                                   Cardinality(DOMAIN ds[1])).value])

\* a faulty variant: the mean is computed first
StatsEntry_mean_first(ds, key) ==
    LET mean == PyTrueDiv(Sum(TokenLengths(ds, key)), Len(Column(ds, key)))
    IN  IF mean.outcome = "raise" THEN mean
        ELSE Return([max_token_length |-> PyMax(TokenLengths(ds, key)).value,
                     min_token_length |-> PyMin(TokenLengths(ds, key)).value,
                     mean_token_length |-> mean.value])

\* the dict display of one field: max, then min, then the mean
StatsEntry(ds, key) ==
    LET mx == PyMax(TokenLengths(ds, key))
    IN  IF mx.outcome = "raise" THEN mx
        ELSE LET mn == PyMin(TokenLengths(ds, key))
             IN  IF mn.outcome = "raise" THEN mn
                 ELSE LET mean == PyTrueDiv(Sum(TokenLengths(ds, key)), Len(Column(ds, key)))
                      IN  IF mean.outcome = "raise" THEN mean
                          ELSE Return([max_token_length |-> mx.value,
                                       min_token_length |-> mn.value,
                                       mean_token_length |-> mean.value])

\* the loop over the requested fields; an entry that raises ends it
RECURSIVE StatsLoop(_, _, _)
StatsLoop(features, ds, stats) ==
    IF features = <<>> THEN Return(stats)
    ELSE LET entry == StatsEntry(ds, Head(features))
         IN  IF entry.outcome = "raise" THEN entry
             ELSE StatsLoop(Tail(features), ds, SetItem(stats, Head(features), entry.value))

DatasetProcessor_get_token_length_stats(features, ds) ==
    StatsLoop(features, ds, NoStats)

PreferenceDatasetProcessor_get_token_length_stats(ds) ==
    DatasetProcessor_get_token_length_stats(<<"prompt", "chosen", "rejected">>, ds)

SFTDatasetProcessor_get_token_length_stats(ds) ==
    DatasetProcessor_get_token_length_stats(<<"prompt", "messages">>, ds)

\* the lists of fields a caller of the base class asks for
BaseFeatureLists == SeqsUpTo({"messages"}, 1)

----------------------------------------------------------------------------
(* The caller *)

IsVariant(cls) == cls \in {"PreferenceDatasetProcessor", "SFTDatasetProcessor"}

CallRecord(op, r, features) ==
    [op |-> op, outcome |-> r.outcome, exc |-> r.exc, features |-> features,
     stats |-> IF op = "get_token_length_stats" /\ r.outcome = "return"
               THEN r.value ELSE NoStats]

\* the tokenizers the pipeline is run with: pad differs from eos, pad is eos
PipelineTokenizers ==
    {[pad_token_id |-> Some(0), eos_token_id |-> Some(1)],
     [pad_token_id |-> Some(1), eos_token_id |-> Some(1)]}

ConstructorArgs(tokenizers) ==
    [cls : Classes, tokenizer : tokenizers, config : ConfigArgs]

\* before construction: the caller holds the constructor's arguments
InitNew ==
    /\ pc = "new"
    /\ args \in ConstructorArgs(Tokenizers)
    /\ self = None
    /\ log = <<>>
    /\ dataset = <<>>
    /\ prev = <<>>
    /\ ret = CallRecord("", Return(<<>>), <<>>)

\* processor = cls(tokenizer, config)
Construct ==
    /\ pc = "new"
    /\ LET r == DatasetProcessor__init__(args.tokenizer, args.config)
       IN  /\ self' = r.value
           /\ log' = log \o r.warnings
           /\ ret' = CallRecord("__init__", r, <<>>)
    /\ pc' = "constructed"
    /\ UNCHANGED <<args, dataset, prev>>

\* the state after construction, with the raw dataset the caller brings
Init ==
    /\ pc = "constructed"
    /\ args \in ConstructorArgs(PipelineTokenizers)
    /\ LET r == DatasetProcessor__init__(args.tokenizer, args.config)
       IN  /\ self = r.value
           /\ log = r.warnings
           /\ ret = CallRecord("__init__", r, <<>>)
    /\ dataset \in RawDatasets(args.cls)
    /\ prev = <<>>

\* dataset = processor.tokenize(dataset)
Tokenize ==
    /\ pc = "constructed"
    /\ LET r == tokenize(args.cls, self, dataset)
       IN  /\ dataset' = IF r.outcome = "return" THEN r.value ELSE dataset
           /\ pc' = IF r.outcome = "return" THEN "tokenized" ELSE "failed"
           /\ log' = log \o r.warnings
           /\ ret' = CallRecord("tokenize", r, <<>>)
    /\ prev' = dataset
    /\ UNCHANGED <<args, self>>

\* dataset = processor.filter(dataset).  The caller filters a dataset that
\* carries the fields filter_fn reads (a tokenized one), or calls filter where
\* no row is read: on the base class, or without a configuration.
Filter_ ==
    /\ \/ pc \in {"tokenized", "filtered"}
       \/ pc = "constructed" /\ (~IsVariant(args.cls) \/ self.config = None)
    /\ LET r == filter(args.cls, self, dataset)
       IN  /\ dataset' = IF r.outcome = "return" THEN r.value ELSE dataset
           /\ pc' = IF r.outcome = "raise" THEN "failed"
                    ELSE IF pc = "filtered" THEN "refiltered" ELSE "filtered"
           /\ log' = log \o r.warnings
           /\ ret' = CallRecord("filter", r, <<>>)
    /\ prev' = dataset
    /\ UNCHANGED <<args, self>>

\* stats = processor.get_token_length_stats(...)
GetTokenLengthStats ==
    /\ \/ pc \in {"tokenized", "filtered", "refiltered"}
       \/ pc = "constructed" /\ ~IsVariant(args.cls)
    /\ \E features \in (CASE args.cls = "PreferenceDatasetProcessor" ->
                                {<<"prompt", "chosen", "rejected">>}
                          [] args.cls = "SFTDatasetProcessor" -> {<<"prompt", "messages">>}
                          [] OTHER -> BaseFeatureLists) :
          LET r == CASE args.cls = "PreferenceDatasetProcessor" ->
                            PreferenceDatasetProcessor_get_token_length_stats(dataset)
                     [] args.cls = "SFTDatasetProcessor" ->
                            SFTDatasetProcessor_get_token_length_stats(dataset)
                     [] OTHER -> DatasetProcessor_get_token_length_stats(features, dataset)
          IN  /\ pc' = IF r.outcome = "return" THEN "done" ELSE "failed"
              /\ log' = log \o r.warnings
              /\ ret' = CallRecord("get_token_length_stats", r, features)
    /\ prev' = dataset
    /\ UNCHANGED <<args, self, dataset>>

Next == Tokenize \/ Filter_ \/ GetTokenLengthStats

Spec == Init /\ [][Next]_vars

NextConstruct == Construct

SpecConstruct == InitNew /\ [][NextConstruct]_vars

----------------------------------------------------------------------------
(* Properties *)

FilterReturned ==
    /\ ret.op = "filter"
    /\ ret.outcome = "return"
    /\ IsVariant(args.cls)
    /\ self.config # None

IsPreference == args.cls = "PreferenceDatasetProcessor"

\* the variant's primary conversational field
Primary == IF IsPreference THEN "chosen" ELSE "messages"

\* the documented predicate: every set bound holds
PreferenceBoundsHold(row, config) ==
    /\ (config.max_prompt_token_lenth # None
            => Len(row["prompt"]) <= Get(config.max_prompt_token_lenth))
    /\ (config.max_token_length # None
            => Len(row["chosen"]) <= Get(config.max_token_length))
    /\ (config.max_token_length # None
            => Len(row["rejected"]) <= Get(config.max_token_length))

SFTBoundsHold(row, config) ==
    /\ (config.max_prompt_token_lenth # None
            => Len(row["prompt"]) <= Get(config.max_prompt_token_lenth))
    /\ (config.max_token_length # None
            => Len(row["messages"]) <= Get(config.max_token_length))

BoundsHold(row) ==
    IF IsPreference THEN PreferenceBoundsHold(row, Get(self.config))
    ELSE SFTBoundsHold(row, Get(self.config))

\* the decision taken by the first set bound alone
FirstSetBoundKeeps(row) ==
    LET config == Get(self.config)
    IN  IF config.max_prompt_token_lenth # None
        THEN Len(row["prompt"]) <= Get(config.max_prompt_token_lenth)
        ELSE IF config.max_token_length # None
             THEN Len(row[Primary]) <= Get(config.max_token_length)
             ELSE TRUE

\* C1: PreferenceDatasetProcessor.filter keeps a record if and only if every
\* set bound is satisfied (prompt <= prompt bound, chosen <= max_token_length,
\* rejected <= max_token_length): the output is exactly the input's records
\* that satisfy all set bounds.
C1_PreferenceFilterConjunction ==
    (FilterReturned /\ IsPreference) => dataset = SelectSeq(prev, BoundsHold)

\* C2: SFTDatasetProcessor.filter keeps a record if and only if prompt <=
\* prompt bound (when set) and messages <= max_token_length (when set).
C2_SFTFilterConjunction ==
    (FilterReturned /\ ~IsPreference) => dataset = SelectSeq(prev, BoundsHold)

BothBoundsUnset ==
    /\ ret.op = "filter"
    /\ IsVariant(args.cls)
    /\ self.config # None
    /\ Get(self.config).max_token_length = None
    /\ Get(self.config).max_prompt_token_lenth = None

\* C3: with both bounds unset, filter of either variant returns the input's
\* records, all of them and in the same order.
C3_UnsetBoundsIdentity ==
    BothBoundsUnset => (ret.outcome = "return" /\ dataset = prev)

C3_Witness ==
    /\ BothBoundsUnset
    /\ pc = "filtered"
    /\ Len(prev) >= 2
    /\ prev[1] # prev[2]

\* C4: tokenize gives one output record per input record; prompt is the
\* rendering of all turns but the last of the original primary field, and the
\* primary field (and rejected, for preference data) is the rendering of its
\* own full turn sequence.
C4_TokenizeDerivesPrompt ==
    (ret.op = "tokenize" /\ ret.outcome = "return") =>
        /\ Len(dataset) = Len(prev)
        /\ \A i \in 1..Len(prev) :
            /\ dataset[i]["prompt"] = apply_chat_template(AllButLast(prev[i][Primary]))
            /\ dataset[i][Primary] = apply_chat_template(prev[i][Primary])
            /\ IsPreference =>
                   dataset[i]["rejected"] = apply_chat_template(prev[i]["rejected"])

C4_Witness ==
    /\ ret.op = "tokenize"
    /\ ret.outcome = "return"
    /\ IsPreference
    /\ Len(prev) >= 2
    /\ \E i \in 1..Len(prev) : Len(prev[i]["chosen"]) >= 2 /\ dataset[i]["prompt"] # <<>>

StatsOnEmptyDataset ==
    /\ ret.op = "get_token_length_stats"
    /\ prev = <<>>
    /\ ret.features # <<>>

\* C5 as stated: get_token_length_stats on an empty dataset with a requested
\* field fails with a division error raised by the mean computation.
C5_EmptyDatasetDivisionError ==
    StatsOnEmptyDataset => (ret.outcome = "raise" /\ ret.exc = "ZeroDivisionError")

\* C5, amended: get_token_length_stats on an empty dataset with a requested
\* field fails with the ValueError of max() over an empty sequence, before the
\* mean is computed; it never returns a statistics mapping.
C5_EmptyDatasetValueError ==
    StatsOnEmptyDataset =>
        (ret.outcome = "raise" /\ ret.exc = "ValueError" /\ ret.stats = NoStats)

C5_Witness ==
    /\ StatsOnEmptyDataset
    /\ pc = "failed"
    /\ IsPreference

\* C6: filter without a configuration, on every processor, logs a warning,
\* skips filtering and returns the input dataset unchanged, without raising.
C6_NoConfigFilterPassesThrough ==
    (ret.op = "filter" /\ self.config = None) =>
        /\ ret.outcome = "return"
        /\ dataset = prev
        /\ log # <<>>
        /\ log[Len(log)] = NoConfigWarning

\* every record of the dataset has the same length in field key
Uniform(key) == \A i \in 1..Len(dataset) : Len(dataset[i][key]) = Len(dataset[1][key])

\* C7: on a non-empty dataset whose records all have the same length L in a
\* requested field, the statistics of that field are max = min = mean = L;
\* the keys of the mapping are exactly the requested fields.
C7_UniformLengthStats ==
    (ret.op = "get_token_length_stats" /\ ret.outcome = "return") =>
        /\ DOMAIN ret.stats = Range(ret.features)
        /\ \A key \in Range(ret.features) :
               Uniform(key) =>
                   ret.stats[key] = [max_token_length |-> Len(dataset[1][key]),
                                     min_token_length |-> Len(dataset[1][key]),
                                     mean_token_length |-> <<Len(dataset[1][key]), 1>>]

C7_Witness ==
    /\ ret.op = "get_token_length_stats"
    /\ ret.outcome = "return"
    /\ IsPreference
    /\ Len(dataset) >= 2
    /\ \A key \in Range(ret.features) : Uniform(key) /\ Len(dataset[1][key]) > 0

\* C8: construction always completes and yields a processor holding the given
\* tokenizer and configuration; it logs exactly one warning when the pad token
\* id equals the end-of-sequence id and none when they differ.
C8_ConstructionWarnsOnce ==
    /\ pc = "new" => ENABLED Construct
    /\ pc = "constructed" =>
        /\ ret.outcome = "return"
        /\ self.tokenizer = args.tokenizer
        /\ self.config = args.config
        /\ log = IF args.tokenizer.pad_token_id = args.tokenizer.eos_token_id
                 THEN <<PadIsEosWarning>> ELSE <<>>

C8_Witness ==
    /\ pc = "constructed"
    /\ ret.op = "__init__"
    /\ args.tokenizer.pad_token_id = args.tokenizer.eos_token_id
    /\ args.tokenizer.pad_token_id # None
    /\ Len(log) = 1

\* C9: in both variants the first set bound alone decides: with the prompt
\* bound set a record is kept iff its prompt fits; otherwise, with
\* max_token_length set, iff chosen (or messages) fits; otherwise it is kept.
\* Two preference records that differ only in rejected get the same decision.
C9_FirstSetBoundDecides ==
    FilterReturned =>
        /\ dataset = SelectSeq(prev, FirstSetBoundKeeps)
        /\ IsPreference =>
               \A i, j \in 1..Len(prev) :
                   (prev[i]["prompt"] = prev[j]["prompt"]
                        /\ prev[i]["chosen"] = prev[j]["chosen"])
                   => (prev[i] \in Range(dataset) <=> prev[j] \in Range(dataset))

C9_Witness ==
    /\ FilterReturned
    /\ IsPreference
    /\ Get(self.config).max_prompt_token_lenth = None
    /\ Get(self.config).max_token_length # None
    /\ \E i, j \in 1..Len(prev) :
           /\ prev[i]["chosen"] = prev[j]["chosen"]
           /\ Len(prev[i]["rejected"]) <= Get(Get(self.config).max_token_length)
           /\ Len(prev[j]["rejected"]) > Get(Get(self.config).max_token_length)
           /\ prev[i] \in Range(dataset)
           /\ prev[j] \in Range(dataset)

\* C10: filter never discards a record that satisfies all set bounds, and
\* filtering the output again with the same configuration removes nothing.
C10_ConformingKept ==
    FilterReturned =>
        /\ \A i \in 1..Len(prev) : BoundsHold(prev[i]) => prev[i] \in Range(dataset)
        /\ pc = "refiltered" => dataset = prev

C10_Witness ==
    /\ FilterReturned
    /\ pc = "refiltered"
    /\ Len(prev) >= 2
    /\ Get(self.config).max_prompt_token_lenth # None
    /\ Get(self.config).max_token_length # None
    /\ \E i \in 1..Len(prev) :
           Len(prev[i]["prompt"]) = Get(Get(self.config).max_prompt_token_lenth)

====
